---- MODULE Spec2Model ----
(***************************************************************************)
(* Model of src/src/codec.js: the four codecs of bibo-img-crypto           *)
(* (InvertCodec, ShuffleRgbCodec, ShuffleBlockCodec, MosaicCodec) acting   *)
(* on an RGBA ImageData and, for MosaicCodec, on the bytes of a file.      *)
(*                                                                         *)
(* An ImageData is a record [width, height, data]; data is a function on  *)
(* 0 .. width*height*4 - 1 (the code's own 0-based indices) to 0 .. 255.   *)
(* A file is a sequence of bytes.                                          *)
(***************************************************************************)
EXTENDS Integers, Sequences, FiniteSets, TLC

VARIABLES
    codecName,    \* the class createCodec instantiated
    randomSeed,   \* getConfig().randomSeed
    imgData,      \* this._imgData
    fileBuffer,   \* this._fileBuffer (MosaicCodec)
    ret,          \* what the last operation returned (or that it threw)
    origImgData,  \* history: this._imgData as first loaded
    origFile,     \* history: the file the encoder was given
    ops           \* history: the operations applied so far, in order

vars == <<codecName, randomSeed, imgData, fileBuffer, ret, origImgData, origFile, ops>>

(***************************************************************************)
(* Bounds of the model.                                                    *)
(***************************************************************************)
MaxSeed == 2          \* randomSeed ranges over 0 .. MaxSeed
MaxWidth == 2         \* in-place codecs: image width  1 .. MaxWidth
MaxHeight == 2        \* in-place codecs: image height 1 .. MaxHeight
MaxOps == 4           \* in-place codecs: operations applied to one buffer
MaxBlockWidth == 24   \* ShuffleBlockCodec: image width  1 .. MaxBlockWidth
MaxBlockHeight == 16  \* ShuffleBlockCodec: image height 1 .. MaxBlockHeight
MaxBlockOps == 3      \* ShuffleBlockCodec: encrypt / decrypt / reload steps
MaxMosaicSize == 33   \* MosaicCodec._doEncrypt: image sides up to MaxMosaicSize
MaxFragments == 3     \* MosaicCodec files: fragments concatenated into a file

Min(a, b) == IF a < b THEN a ELSE b

(***************************************************************************)
(* Input images.  A pattern fixes every byte of a buffer from its index:   *)
(* pixel p, channel c holds base + p*step + c*chan (mod 256); an opaque    *)
(* pattern has alpha 255 everywhere.                                       *)
(***************************************************************************)
Patterns ==
    [base : {0, 10, 250}, step : {1, 37}, chan : {0, 101}, opaque : BOOLEAN]

PatternByte(pat, i) ==
    IF pat.opaque /\ i % 4 = 3
    THEN 255
    ELSE (pat.base + (i \div 4) * pat.step + (i % 4) * pat.chan) % 256

\* What getImageData hands the codec: width*height*4 bytes, RGBA, row-major.
ImageOf(w, h, pat) ==
    [width |-> w, height |-> h,
     data |-> [i \in 0 .. (w * h * 4 - 1) |-> PatternByte(pat, i)]]

\* Return values: nothing yet, an ImageData, or an exception thrown.
Nothing == [kind |-> "none"]
Returned(img) == [kind |-> "imgData", img |-> img]
Thrown(name) == [kind |-> "throw", error |-> name]

(***************************************************************************)
(* RandomSequence (./random, not part of src/): modelled from its          *)
(* contract, n successive next() calls yield every integer of 0 .. n-1     *)
(* exactly once in an order fixed by (n, seed).  The model is a            *)
(* Fisher-Yates shuffle driven by a small linear congruential generator.   *)
(* RandomSequence(n, seed)[k] is the value of the k-th call (k from 0).    *)
(***************************************************************************)
NextRandom(state) == (state * 75 + 74) % 65537

Swap(list, i, j) == [list EXCEPT ![i] = list[j], ![j] = list[i]]

RECURSIVE FisherYates(_, _, _)
FisherYates(list, i, state) ==
    IF i <= 0
    THEN list
    ELSE LET r == NextRandom(state)
         IN  FisherYates(Swap(list, i, r % (i + 1)), i - 1, r)

RandomSequence(n, seed) ==
    FisherYates([k \in 0 .. (n - 1) |-> k], n - 1, seed + 1)

(***************************************************************************)
(* InvertCodec                                                             *)
(***************************************************************************)
\* A byte complemented on seven bits only.
InvertByteLow7(v) == (-v - 1) % 128

\* ~v & 0xFF
InvertByte(v) == (-v - 1) % 256

\* The loop inverting the alpha byte as well.
InvertColorAllChannels(img) ==
    [img EXCEPT !.data = [i \in DOMAIN img.data |-> InvertByte(img.data[i])]]

\* _invertColor: data[i], data[i+1], data[i+2] complemented for i = 0, 4, 8, ...
InvertColor(img) ==
    [img EXCEPT !.data =
        [i \in DOMAIN img.data |->
            IF i % 4 = 3 THEN img.data[i] ELSE InvertByte(img.data[i])]]

(***************************************************************************)
(* ShuffleRgbCodec                                                         *)
(***************************************************************************)
\* The index in data of the k-th R/G/B value: pixel k \div 3, channel k % 3.
RgbIndex(k) == (k \div 3) * 4 + (k % 3)

\* First loop of _doEncrypt: buffer[seq.next()] = data[i + c], in call order.
RECURSIVE Scatter(_, _, _, _, _)
Scatter(buffer, data, seq, k, nRgbs) ==
    IF k >= nRgbs
    THEN buffer
    ELSE Scatter(IF seq[k] \in DOMAIN buffer
                 THEN [buffer EXCEPT ![seq[k]] = data[RgbIndex(k)]]
                 ELSE buffer,
                 data, seq, k + 1, nRgbs)

\* Copy of a scratch buffer into the R, G, B slots, alpha kept.
StoreRgb(data, values) ==
    [i \in DOMAIN data |->
        IF i % 4 = 3 THEN data[i] ELSE values[(i \div 4) * 3 + (i % 4)]]

ShuffleRgbEncryptImg(img, seed) ==
    LET data == img.data
        nRgbs == (Cardinality(DOMAIN data) \div 4) * 3
        seq == RandomSequence(nRgbs, seed)
        buffer == Scatter([j \in 0 .. (nRgbs - 1) |-> 0], data, seq, 0, nRgbs)
    IN  [img EXCEPT !.data = StoreRgb(data, buffer)]

\* A decrypt that scatters through the sequence, as encrypt does, instead of
\* gathering through it.
ShuffleRgbDecryptScatter(img, seed) == ShuffleRgbEncryptImg(img, seed)

ShuffleRgbDecryptImg(img, seed) ==
    LET data == img.data
        nRgbs == (Cardinality(DOMAIN data) \div 4) * 3
        buffer == [j \in 0 .. (nRgbs - 1) |-> data[RgbIndex(j)]]
        seq == RandomSequence(nRgbs, seed)
    IN  [img EXCEPT !.data =
            StoreRgb(data, [k \in 0 .. (nRgbs - 1) |-> buffer[seq[k]]])]

(***************************************************************************)
(* Operations of the in-place codecs.  ShuffleRgbCodec._initFromImg draws  *)
(* the image over white, so the buffers it loads are opaque; _doEncrypt    *)
(* and _doDecrypt take any buffer, and are run here on opaque and          *)
(* non-opaque ones alike.                                                  *)
(***************************************************************************)
InPlaceInit ==
    /\ codecName \in {"InvertCodec", "ShuffleRgbCodec"}
    /\ randomSeed \in 0 .. MaxSeed
    /\ \E w \in 1 .. MaxWidth, h \in 1 .. MaxHeight, pat \in Patterns :
          imgData = ImageOf(w, h, pat)
    /\ fileBuffer = <<>>
    /\ ret = Nothing
    /\ origImgData = imgData
    /\ origFile = <<>>
    /\ ops = <<>>

\* An in-place operation: this._imgData is mutated and returned.
InPlaceOp(name, newImg) ==
    /\ Len(ops) < MaxOps
    /\ imgData' = newImg
    /\ ret' = Returned(newImg)
    /\ ops' = Append(ops, name)
    /\ UNCHANGED <<codecName, randomSeed, fileBuffer, origImgData, origFile>>

InvertEncrypt ==
    /\ codecName = "InvertCodec"
    /\ InPlaceOp("encrypt", InvertColor(imgData))

InvertDecrypt ==
    /\ codecName = "InvertCodec"
    /\ InPlaceOp("decrypt", InvertColor(imgData))

ShuffleRgbEncrypt ==
    /\ codecName = "ShuffleRgbCodec"
    /\ InPlaceOp("encrypt", ShuffleRgbEncryptImg(imgData, randomSeed))

ShuffleRgbDecrypt ==
    /\ codecName = "ShuffleRgbCodec"
    /\ InPlaceOp("decrypt", ShuffleRgbDecryptImg(imgData, randomSeed))

InPlaceNext ==
    \/ InvertEncrypt
    \/ InvertDecrypt
    \/ ShuffleRgbEncrypt
    \/ ShuffleRgbDecrypt

SpecInPlace == InPlaceInit /\ [][InPlaceNext]_vars

(***************************************************************************)
(* Properties of the in-place codecs.                                      *)
(***************************************************************************)
Opaque(img) == \A i \in DOMAIN img.data : i % 4 = 3 => img.data[i] = 255

SameRgb(a, b) ==
    /\ DOMAIN a.data = DOMAIN b.data
    /\ \A i \in DOMAIN a.data : i % 4 # 3 => a.data[i] = b.data[i]

SameAlpha(a, b) ==
    /\ DOMAIN a.data = DOMAIN b.data
    /\ \A i \in DOMAIN a.data : i % 4 = 3 => a.data[i] = b.data[i]

\* C2: ShuffleRgbCodec, on a buffer with alpha = 255 everywhere, _doEncrypt
\* followed by _doDecrypt with the same seed restores the R, G and B value of
\* every pixel.
C2_ShuffleRgbRoundTrip ==
    (/\ codecName = "ShuffleRgbCodec"
     /\ Opaque(origImgData)
     /\ ops = <<"encrypt", "decrypt">>)
    => /\ SameRgb(imgData, origImgData)
       /\ ret = Returned(imgData)

\* A round trip of a 2x2 opaque image whose R, G, B values are not all equal.
C2_Witness ==
    /\ codecName = "ShuffleRgbCodec"
    /\ Opaque(origImgData)
    /\ ops = <<"encrypt", "decrypt">>
    /\ origImgData.width = 2 /\ origImgData.height = 2
    /\ origImgData.data[0] # origImgData.data[4]
    /\ SameRgb(imgData, origImgData)

\* C3: InvertCodec is self-inverse: after an even number of _doEncrypt /
\* _doDecrypt applications (in any mix) the buffer is byte-for-byte the
\* original one.
C3_InvertSelfInverse ==
    (codecName = "InvertCodec" /\ Len(ops) % 2 = 0)
    => /\ imgData = origImgData
       /\ ops # <<>> => ret = Returned(origImgData)

\* Encrypt then decrypt has been applied and the original is back.
C3_Witness ==
    /\ codecName = "InvertCodec"
    /\ ops = <<"encrypt", "decrypt">>
    /\ imgData = origImgData
    /\ \E i \in DOMAIN imgData.data : imgData.data[i] \notin {0, 255}

\* C10: the in-place codecs leave alpha alone: after _invertColor,
\* ShuffleRgbCodec._doEncrypt or ShuffleRgbCodec._doDecrypt every byte at an
\* index i with i mod 4 = 3 has its value of before the call, and width,
\* height and length are unchanged.
C10_AlphaUntouched ==
    [][/\ SameAlpha(imgData', imgData)
       /\ imgData'.width = imgData.width
       /\ imgData'.height = imgData.height
       /\ Cardinality(DOMAIN imgData'.data) = Cardinality(DOMAIN imgData.data)]_vars

\* A shuffle has moved R, G, B values of an image with a non-opaque alpha,
\* and the alpha bytes are those of the original.
C10_Witness ==
    /\ codecName = "ShuffleRgbCodec"
    /\ ops = <<"decrypt">>
    /\ ~ SameRgb(imgData, origImgData)
    /\ \E i \in DOMAIN imgData.data : i % 4 = 3 /\ imgData.data[i] # 255
    /\ SameAlpha(imgData, origImgData)

(***************************************************************************)
(* ShuffleBlockCodec                                                       *)
(***************************************************************************)
BLOCK_EDGE == 8

\* CanvasRenderingContext2D.createImageData(sw, sh): transparent black, and
\* an IndexSizeError when sw or sh is zero.
CreateImageData(sw, sh) ==
    IF sw = 0 \/ sh = 0
    THEN Thrown("IndexSizeError")
    ELSE Returned([width |-> sw, height |-> sh,
                   data |-> [i \in 0 .. (sw * sh * 4 - 1) |-> 0]])

\* _copyBlock: 8 rows of 8*4 bytes, from iSrcStart + y*srcWidth*4 + i to
\* iDstStart + y*dstWidth*4 + i.  (dstImgData.width >= 8 wherever the code
\* calls it, so the rows written do not overlap.)  A read past the end of
\* the source is undefined and stores 0.
CopyBlock(dstImgData, dstBlockX, dstBlockY, srcImgData, srcBlockX, srcBlockY) ==
    LET iDstStart == (dstBlockY * dstImgData.width + dstBlockX) * BLOCK_EDGE * 4
        iSrcStart == (srcBlockY * srcImgData.width + srcBlockX) * BLOCK_EDGE * 4
        dstRow == dstImgData.width * 4
        srcRow == srcImgData.width * 4
    IN  [dstImgData EXCEPT !.data =
            [k \in DOMAIN dstImgData.data |->
                LET off == k - iDstStart
                    y == off \div dstRow
                    i == off % dstRow
                    iSrc == iSrcStart + y * srcRow + i
                IN  IF off >= 0 /\ y < BLOCK_EDGE /\ i < BLOCK_EDGE * 4
                    THEN IF iSrc \in DOMAIN srcImgData.data
                         THEN srcImgData.data[iSrc]
                         ELSE 0
                    ELSE dstImgData.data[k]]]

\* A decrypt handler that copies in encrypt's direction.
HandleCopyAlwaysEncrypt(mode, result, src, blockX, blockY, newBlockX, newBlockY) ==
    CopyBlock(result, newBlockX, newBlockY, src, blockX, blockY)

\* The handleCopy callbacks of _doEncrypt and _doDecrypt.
HandleCopy(mode, result, src, blockX, blockY, newBlockX, newBlockY) ==
    IF mode = "encrypt"
    THEN CopyBlock(result, newBlockX, newBlockY, src, blockX, blockY)
    ELSE CopyBlock(result, blockX, blockY, src, newBlockX, newBlockY)

\* The destination block handleCopy writes (history only).
DstBlock(mode, blockX, blockY, newBlockX, newBlockY) ==
    IF mode = "encrypt" THEN <<newBlockX, newBlockY>> ELSE <<blockX, blockY>>

\* The two loops of _doCommon, blockY outer and blockX inner: step k handles
\* block (k % blockWidth, k \div blockWidth) with the k-th value of seq.
RECURSIVE DoCommonLoop(_, _, _, _, _, _, _)
DoCommonLoop(mode, acc, src, seq, k, blockWidth, blockHeight) ==
    IF k >= blockWidth * blockHeight
    THEN acc
    ELSE LET blockX == k % blockWidth
             blockY == k \div blockWidth
             index == seq[k]
             newBlockX == index % blockWidth
             newBlockY == index \div blockWidth
         IN  DoCommonLoop(mode,
                 [img |-> HandleCopy(mode, acc.img, src, blockX, blockY,
                                     newBlockX, newBlockY),
                  written |-> acc.written \cup
                      {DstBlock(mode, blockX, blockY, newBlockX, newBlockY)}],
                 src, seq, k + 1, blockWidth, blockHeight)

\* _doCommon; the value returned carries the set of blocks written.
DoCommon(mode, img, seed) ==
    LET blockWidth == img.width \div BLOCK_EDGE
        blockHeight == img.height \div BLOCK_EDGE
        result == CreateImageData(blockWidth * BLOCK_EDGE, blockHeight * BLOCK_EDGE)
        seq == RandomSequence(blockWidth * blockHeight, seed)
    IN  IF result.kind = "throw"
        THEN result
        ELSE LET acc == DoCommonLoop(mode, [img |-> result.img, written |-> {}],
                                     img, seq, 0, blockWidth, blockHeight)
             IN  [kind |-> "imgData", img |-> acc.img, written |-> acc.written]

BlockPatterns == {pat \in Patterns : pat.base = 10 /\ pat.chan = 101 /\ ~ pat.opaque}

ShuffleBlockInit ==
    /\ codecName = "ShuffleBlockCodec"
    /\ randomSeed \in 0 .. MaxSeed
    /\ \E w \in 1 .. MaxBlockWidth, h \in 1 .. MaxBlockHeight, pat \in BlockPatterns :
          imgData = ImageOf(w, h, pat)
    /\ fileBuffer = <<>>
    /\ ret = Nothing
    /\ origImgData = imgData
    /\ origFile = <<>>
    /\ ops = <<>>

\* A codec instance is loaded and then used once: an operation follows a load.
Loaded == IF ops = <<>> THEN TRUE ELSE ops[Len(ops)] = "load"

\* _doEncrypt / _doDecrypt return a new ImageData; this._imgData is kept.
ShuffleBlockOp(mode) ==
    /\ codecName = "ShuffleBlockCodec"
    /\ Len(ops) < MaxBlockOps
    /\ ret' = DoCommon(mode, imgData, randomSeed)
    /\ ops' = Append(ops, mode)
    /\ UNCHANGED <<codecName, randomSeed, imgData, fileBuffer, origImgData, origFile>>

ShuffleBlockEncrypt ==
    /\ Loaded
    /\ ShuffleBlockOp("encrypt")

ShuffleBlockDecrypt ==
    /\ Loaded
    /\ ShuffleBlockOp("decrypt")

\* _initFromImg of the next codec instance, given the image the last result
\* was rendered to: its pixels become this._imgData (the rendering and the
\* decoding of the image file are taken to keep every byte).
InitFromImg ==
    /\ Len(ops) < MaxBlockOps
    /\ ~ Loaded
    /\ ret.kind = "imgData"
    /\ imgData' = ret.img
    /\ ret' = Nothing
    /\ ops' = Append(ops, "load")
    /\ UNCHANGED <<codecName, randomSeed, fileBuffer, origImgData, origFile>>

ShuffleBlockNext ==
    \/ ShuffleBlockEncrypt
    \/ ShuffleBlockDecrypt
    \/ InitFromImg

SpecShuffleBlock == ShuffleBlockInit /\ [][ShuffleBlockNext]_vars

(***************************************************************************)
(* Properties of ShuffleBlockCodec.                                        *)
(***************************************************************************)
\* The 8x8 block (bx, by) of an image, rows addressed with the image's width.
BlockAt(img, bx, by) ==
    [y \in 0 .. (BLOCK_EDGE - 1), i \in 0 .. (BLOCK_EDGE * 4 - 1) |->
        img.data[((by * BLOCK_EDGE + y) * img.width + bx * BLOCK_EDGE) * 4 + i]]

LastOp == IF ops = <<>> THEN "none" ELSE ops[Len(ops)]

\* C1: ShuffleBlockCodec round trip: for a buffer whose width and height are
\* multiples of 8, _doEncrypt and then _doDecrypt of the encoded result (same
\* seed) returns a buffer of the same width and height with identical data.
C1_ShuffleBlockRoundTrip ==
    (/\ ops = <<"encrypt", "load", "decrypt">>
     /\ origImgData.width % BLOCK_EDGE = 0
     /\ origImgData.height % BLOCK_EDGE = 0)
    => /\ ret.kind = "imgData"
       /\ ret.img = origImgData

\* A 16x16 image came back from a round trip whose encoded form differed.
C1_Witness ==
    /\ ops = <<"encrypt", "load", "decrypt">>
    /\ origImgData.width = 2 * BLOCK_EDGE
    /\ origImgData.height = 2 * BLOCK_EDGE
    /\ imgData # origImgData
    /\ ret.kind = "imgData"
    /\ ret.img = origImgData

\* What C8 says of a returned buffer `out` for the input `in`.
CroppedBlockCopy(out, in) ==
    LET blockWidth == in.width \div BLOCK_EDGE
        blockHeight == in.height \div BLOCK_EDGE
        blocks == (0 .. (blockWidth - 1)) \X (0 .. (blockHeight - 1))
    IN  /\ out.kind = "imgData"
        /\ out.img.width = blockWidth * BLOCK_EDGE
        /\ out.img.height = blockHeight * BLOCK_EDGE
        /\ DOMAIN out.img.data = 0 .. (out.img.width * out.img.height * 4 - 1)
        /\ \A b \in blocks : \E s \in blocks :
              BlockAt(out.img, b[1], b[2]) = BlockAt(in, s[1], s[2])
        /\ out.written = blocks

\* C8: ShuffleBlock cropping: for any input of width w and height h,
\* _doEncrypt and _doDecrypt return a buffer floor(w/8)*8 wide and
\* floor(h/8)*8 high, each of whose 8x8 blocks is a copy of one 8x8 block of
\* the top-left region of the input, none left unwritten.
C8_ShuffleBlockCropping ==
    LastOp \in {"encrypt", "decrypt"} => CroppedBlockCopy(ret, imgData)

\* C8, for the inputs of at least 8x8, where createImageData returns.
C8_CroppingFrom8x8 ==
    (/\ LastOp \in {"encrypt", "decrypt"}
     /\ imgData.width >= BLOCK_EDGE
     /\ imgData.height >= BLOCK_EDGE)
    => CroppedBlockCopy(ret, imgData)

\* C8: an input under 8 pixels wide or high makes _doCommon throw.
C8_ThrowsUnder8 ==
    (/\ LastOp \in {"encrypt", "decrypt"}
     /\ (imgData.width < BLOCK_EDGE \/ imgData.height < BLOCK_EDGE))
    => ret = Thrown("IndexSizeError")

\* A 10x10 input was encrypted to an 8x8 buffer.
C8_Witness10x10 ==
    /\ ops = <<"encrypt">>
    /\ imgData.width = 10 /\ imgData.height = 10
    /\ ret.kind = "imgData"
    /\ ret.img.width = 8 /\ ret.img.height = 8

(***************************************************************************)
(* MosaicCodec: the pixel step                                             *)
(***************************************************************************)
BLOCK_SIZE == 32

\* The quotient truncated instead of rounded.
MathFloor(num, den) == num \div den

\* Math.round(num / den) for num >= 0, den > 0: the nearest integer, a half
\* rounded up.  (The code divides twice in floating point, total / width /
\* height; with total <= 255 * 1024 and width, height <= 32 a quotient that
\* is exactly a half is computed exactly and any other is further from a
\* half than the rounding error, so the result is that of the exact
\* quotient.)
MathRound(num, den) == (2 * num + den) \div (2 * den)

RECURSIVE SumRow(_, _, _, _)
SumRow(data, iStart, x, width) ==
    IF x >= width
    THEN 0
    ELSE data[iStart + x * 4] + SumRow(data, iStart, x + 1, width)

\* The first pair of loops of _mosaic for one channel: total of the block
\* whose first byte of that channel is at iStart.
RECURSIVE SumBlock(_, _, _, _, _, _)
SumBlock(data, iStart, y, width, height, imgWidth) ==
    IF y >= height
    THEN 0
    ELSE SumRow(data, iStart, 0, width)
         + SumBlock(data, iStart + imgWidth * 4, y + 1, width, height, imgWidth)

\* The second pair of loops of _mosaic, for the four channels: the average
\* of channel c (average[c + 1]) is stored in channel c of every pixel of the
\* block.
FillBlock(img, x, y, width, height, average) ==
    [img EXCEPT !.data =
        [k \in DOMAIN img.data |->
            LET px == (k \div 4) % img.width
                py == (k \div 4) \div img.width
            IN  IF px >= x /\ px < x + width /\ py >= y /\ py < y + height
                THEN average[(k % 4) + 1]
                ELSE img.data[k]]]

\* let average = Math.round(total / width / height), for channel iChannel.
ChannelAverage(img, x, y, width, height, iChannel) ==
    MathRound(SumBlock(img.data, (y * img.width + x) * 4 + iChannel,
                       0, width, height, img.width),
              width * height)

\* _mosaic(x, y, width, height): for each channel, the rounded mean of the
\* block is stored in every pixel of the block.
Mosaic(img, x, y, width, height) ==
    FillBlock(img, x, y, width, height,
        <<ChannelAverage(img, x, y, width, height, 0),
          ChannelAverage(img, x, y, width, height, 1),
          ChannelAverage(img, x, y, width, height, 2),
          ChannelAverage(img, x, y, width, height, 3)>>)

\* The inner loop of _doEncrypt: the blocks of one block row, left to right.
RECURSIVE MosaicRow(_, _, _, _)
MosaicRow(img, x, y, blockHeight) ==
    IF x >= img.width
    THEN img
    ELSE LET blockWidth == Min(BLOCK_SIZE, img.width - x)
         IN  MosaicRow(Mosaic(img, x, y, blockWidth, blockHeight),
                       x + BLOCK_SIZE, y, blockHeight)

\* The outer loop of _doEncrypt: the block rows, top to bottom.
RECURSIVE MosaicRows(_, _)
MosaicRows(img, y) ==
    IF y >= img.height
    THEN img
    ELSE LET blockHeight == Min(BLOCK_SIZE, img.height - y)
         IN  MosaicRows(MosaicRow(img, 0, y, blockHeight), y + BLOCK_SIZE)

\* MosaicCodec._doEncrypt
MosaicDoEncrypt(img) == MosaicRows(img, 0)

\* A 2x2 image with R values 10, 20, 30, 41.
ExampleImage ==
    LET bytes == <<10, 0, 7, 255,  20, 0, 8, 254,  30, 0, 8, 255,  41, 1, 8, 254>>
    IN  [width |-> 2, height |-> 2, data |-> [i \in 0 .. 15 |-> bytes[i + 1]]]

\* Sides that make one block, a clipped block, and more than one block.
MosaicSizes == {n \in 1 .. MaxMosaicSize : n <= 2 \/ n >= BLOCK_SIZE - 1}

MosaicPatterns == {pat \in Patterns : pat.chan = 101}

MosaicInit ==
    /\ codecName = "MosaicCodec"
    /\ randomSeed = 0
    /\ \/ imgData = ExampleImage
       \/ \E w \in MosaicSizes, h \in MosaicSizes, pat \in MosaicPatterns :
             imgData = ImageOf(w, h, pat)
    /\ fileBuffer = <<>>
    /\ ret = Nothing
    /\ origImgData = imgData
    /\ origFile = <<>>
    /\ ops = <<>>

\* _doEncrypt: this._imgData is mosaicked in place and returned.
MosaicEncrypt ==
    /\ codecName = "MosaicCodec"
    /\ ops = <<>>
    /\ imgData' = MosaicDoEncrypt(imgData)
    /\ ret' = Returned(imgData')
    /\ ops' = Append(ops, "encrypt")
    /\ UNCHANGED <<codecName, randomSeed, fileBuffer, origImgData, origFile>>

MosaicNext == MosaicEncrypt

SpecMosaic == MosaicInit /\ [][MosaicNext]_vars

(***************************************************************************)
(* Properties of the mosaic.                                               *)
(***************************************************************************)
\* Sum of channel c over the columns xs of row y, and over the rows ys.
RECURSIVE ChannelSum(_, _, _, _, _, _)
ChannelSum(img, c, x0, x1, y0, y1) ==
    IF y0 > y1
    THEN 0
    ELSE IF x0 > x1
         THEN 0
         ELSE IF x0 = x1
              THEN img.data[(y0 * img.width + x0) * 4 + c]
                   + ChannelSum(img, c, x0, x1, y0 + 1, y1)
              ELSE ChannelSum(img, c, x0, x0, y0, y1)
                   + ChannelSum(img, c, x0 + 1, x1, y0, y1)

\* C9: MosaicCodec._doEncrypt keeps width and height and, for every block of
\* 32x32 pixels (the last column and row of blocks clipped to the image) and
\* each of the 4 channels, stores in every pixel of the block the mean of the
\* block's values of before the call, rounded to the nearest integer (a half
\* up).
C9_MosaicBlockAverage ==
    ops = <<"encrypt">> =>
        /\ imgData.width = origImgData.width
        /\ imgData.height = origImgData.height
        /\ DOMAIN imgData.data = DOMAIN origImgData.data
        /\ ret = Returned(imgData)
        /\ \A bx \in 0 .. ((imgData.width - 1) \div BLOCK_SIZE),
              by \in 0 .. ((imgData.height - 1) \div BLOCK_SIZE),
              c \in 0 .. 3 :
              LET x0 == bx * BLOCK_SIZE
                  x1 == Min(x0 + BLOCK_SIZE, imgData.width) - 1
                  y0 == by * BLOCK_SIZE
                  y1 == Min(y0 + BLOCK_SIZE, imgData.height) - 1
                  n == (x1 - x0 + 1) * (y1 - y0 + 1)
                  total == ChannelSum(origImgData, c, x0, x1, y0, y1)
                  v == imgData.data[(y0 * imgData.width + x0) * 4 + c]
              IN  /\ 2 * total - n < 2 * v * n
                  /\ 2 * v * n <= 2 * total + n
                  /\ \A x \in x0 .. x1, y \in y0 .. y1 :
                        imgData.data[(y * imgData.width + x) * 4 + c] = v

\* The 2x2 example: R values 10, 20, 30, 41 have become 25.
C9_Witness ==
    /\ ops = <<"encrypt">>
    /\ origImgData = ExampleImage
    /\ \A p \in 0 .. 3 : imgData.data[p * 4] = 25

\* A 33x33 image, four blocks, the last column and row one pixel wide, has
\* been mosaicked and its four blocks differ.
C9_WitnessClipped ==
    /\ ops = <<"encrypt">>
    /\ imgData.width = BLOCK_SIZE + 1 /\ imgData.height = BLOCK_SIZE + 1
    /\ imgData.data[0] # imgData.data[BLOCK_SIZE * 4]
    /\ imgData # origImgData

(***************************************************************************)
(* MosaicCodec: the container step                                         *)
(***************************************************************************)
PNG_SIGNATURE == <<137, 80, 78, 71, 13, 10, 26, 10>>   \* 89 50 4E 47 0D 0A 1A 0A
IHDR == <<73, 72, 68, 82>>
IDAT == <<73, 68, 65, 84>>
IEND == <<73, 69, 78, 68>>                             \* 0x49454E44

EmptyUrl == [kind |-> "empty"]                         \* return ''
ObjectUrl(bytes) == [kind |-> "objectUrl", bytes |-> bytes]
BlobOf(bytes) == [kind |-> "blob", bytes |-> bytes]

\* DataView.getUint32(byteOffset) reads 4 bytes, big-endian, and throws a
\* RangeError unless byteOffset + 4 <= byteLength.
InRange(fileView, byteOffset) == byteOffset + 4 <= Len(fileView)

\* The 4 bytes read, most significant first.
GetUint32(fileView, byteOffset) ==
    <<fileView[byteOffset + 1], fileView[byteOffset + 2],
      fileView[byteOffset + 3], fileView[byteOffset + 4]>>

\* The number 4 big-endian bytes stand for.  A number of 2^30 or more is
\* held as 2^30: it is only ever added to an offset, and the sum is past the
\* end of any file of less than 2^30 bytes either way.
NumberOf(b) ==
    IF b[1] >= 64
    THEN 1073741824
    ELSE ((b[1] * 256 + b[2]) * 256 + b[3]) * 256 + b[4]

\* offset += 8 + dataLength, the CRC forgotten.
ChunkEndNoCrc(offset, dataLength) == offset + 8 + dataLength

\* offset += 8 + dataLength + 4
ChunkEnd(offset, dataLength) == offset + 8 + dataLength + 4

\* The do-while loop: chunks are skipped up to and including the first one
\* of type IEND; a read out of range throws.
RECURSIVE SkipChunks(_, _)
SkipChunks(fileView, offset) ==
    IF ~ InRange(fileView, offset) \/ ~ InRange(fileView, offset + 4)
    THEN Thrown("RangeError")
    ELSE LET dataLength == NumberOf(GetUint32(fileView, offset))
             typeCode == GetUint32(fileView, offset + 4)
         IN  IF typeCode # IEND
             THEN SkipChunks(fileView, ChunkEnd(offset, dataLength))
             ELSE [kind |-> "offset", offset |-> ChunkEnd(offset, dataLength)]

\* The magic-number test checking the first word only.
BadSignatureFirstWord(fileView) ==
    IF ~ InRange(fileView, 0)
    THEN Thrown("RangeError")
    ELSE [kind |-> "bool", value |-> GetUint32(fileView, 0) # <<137, 80, 78, 71>>]

\* getUint32(0) !== 0x89504E47 || getUint32(4) !== 0x0D0A1A0A: the second
\* read happens only when the first word matches.
BadSignature(fileView) ==
    IF ~ InRange(fileView, 0)
    THEN Thrown("RangeError")
    ELSE IF GetUint32(fileView, 0) # <<137, 80, 78, 71>>
         THEN [kind |-> "bool", value |-> TRUE]
         ELSE IF ~ InRange(fileView, 4)
              THEN Thrown("RangeError")
              ELSE [kind |-> "bool", value |-> GetUint32(fileView, 4) # <<13, 10, 26, 10>>]

\* offset > fileView.byteLength
NoTrailingDataStrict(offset, byteLength) == offset > byteLength

\* offset >= fileView.byteLength
NoTrailingData(offset, byteLength) == offset >= byteLength

\* new DataView(this._fileBuffer, offset) and the Blob made of it: the bytes
\* from offset to the end; a RangeError when offset is past the end.
RemainData(fileView, offset) ==
    IF offset > Len(fileView)
    THEN Thrown("RangeError")
    ELSE ObjectUrl(SubSeq(fileView, offset + 1, Len(fileView)))

\* The body of the try block of decryptToUrl.
DecryptToUrlTry(fileView) ==
    LET bad == BadSignature(fileView)
        end == SkipChunks(fileView, 8)
    IN  IF bad.kind = "throw" THEN bad
        ELSE IF bad.value THEN EmptyUrl
        ELSE IF end.kind = "throw" THEN end
        ELSE IF NoTrailingData(end.offset, Len(fileView)) THEN EmptyUrl
        ELSE RemainData(fileView, end.offset)

\* decryptToUrl without its catch clause.
DecryptToUrlNoCatch(fileView) == DecryptToUrlTry(fileView)

\* MosaicCodec.decryptToUrl: what the try block returns, '' when it throws.
DecryptToUrl(fileView) ==
    LET r == DecryptToUrlTry(fileView)
    IN  IF r.kind = "throw" THEN EmptyUrl ELSE r

\* n as 4 big-endian bytes.
U32Bytes(n) ==
    <<(n \div 16777216) % 256, (n \div 65536) % 256, (n \div 256) % 256, n % 256>>

Chunk(type, data, crc) == U32Bytes(Len(data)) \o type \o data \o crc

RECURSIVE Concat(_)
Concat(seqs) == IF seqs = <<>> THEN <<>> ELSE Head(seqs) \o Concat(Tail(seqs))

\* The IDAT chunks of a rendered PNG: the compressed stream is the encoder's
\* business; here a few short payloads, one of them spelling an IEND chunk.
IdatStreams ==
    { <<Chunk(IDAT, <<120, 156, 99>>, <<1, 2, 3, 4>>)>>,
      <<Chunk(IDAT, <<0, 0, 0, 0>> \o IEND \o <<174, 66, 96, 130>>, <<73, 69, 78, 68>>)>>,
      <<Chunk(IDAT, <<120>>, <<0, 0, 0, 0>>), Chunk(IDAT, <<>>, <<255, 255, 255, 255>>)>> }

\* canvas.toDataURL() and dataUrlToBlob: the PNG files the canvas may render
\* an image to: signature, IHDR (width, height, 8 bits, RGBA), IDAT chunks,
\* and an empty IEND chunk, with nothing after it.
RenderedPngs(img) ==
    { PNG_SIGNATURE
      \o Chunk(IHDR, U32Bytes(img.width) \o U32Bytes(img.height) \o <<8, 6, 0, 0, 0>>,
               <<5, 6, 7, 8>>)
      \o Concat(idats)
      \o Chunk(IEND, <<>>, <<174, 66, 96, 130>>) : idats \in IdatStreams }

\* Pieces files are made of: whole and broken signatures, whole and broken
\* chunks, stray bytes.
Fragments ==
    { PNG_SIGNATURE,
      <<137, 80, 78, 71>>,
      <<137, 80, 78, 71, 13, 10, 26, 11>>,
      Chunk(IEND, <<>>, <<174, 66, 96, 130>>),
      Chunk(IDAT, <<7>>, <<1, 2, 3, 4>>),
      <<0, 0, 0, 0>> \o IEND,
      <<255, 255, 255, 255>> \o IDAT,
      <<0>> }

RECURSIVE FilesOf(_)
FilesOf(n) ==
    IF n = 0
    THEN {<<>>}
    ELSE LET shorter == FilesOf(n - 1)
         IN  shorter \cup {f \o g : f \in shorter, g \in Fragments}

Files == FilesOf(MaxFragments)

ContainerInit ==
    /\ codecName = "MosaicCodec"
    /\ randomSeed = 0
    /\ imgData = ExampleImage
    /\ fileBuffer \in Files
    /\ ret = Nothing
    /\ origImgData = imgData
    /\ origFile = fileBuffer
    /\ ops = <<>>

\* MosaicCodec.encryptToBlob: Codec.encryptToBlob mosaics this._imgData,
\* renders it to a PNG blob, and the file's bytes are appended to it.
MosaicEncryptToBlob ==
    /\ codecName = "MosaicCodec"
    /\ ops = <<>>
    /\ imgData' = MosaicDoEncrypt(imgData)
    /\ \E png \in RenderedPngs(imgData') : ret' = BlobOf(png \o fileBuffer)
    /\ ops' = Append(ops, "encrypt")
    /\ UNCHANGED <<codecName, randomSeed, fileBuffer, origImgData, origFile>>

\* MosaicCodec.initFromBlob of the decoding instance, on the blob the encoder
\* made: its bytes become this._fileBuffer, its image this._imgData.
MosaicInitFromBlob ==
    /\ codecName = "MosaicCodec"
    /\ ret.kind = "blob"
    /\ fileBuffer' = ret.bytes
    /\ ret' = Nothing
    /\ ops' = Append(ops, "load")
    /\ UNCHANGED <<codecName, randomSeed, imgData, origImgData, origFile>>

\* MosaicCodec.decryptToUrl on this._fileBuffer.
MosaicDecryptToUrl ==
    /\ codecName = "MosaicCodec"
    /\ Loaded
    /\ ret' = DecryptToUrl(fileBuffer)
    /\ ops' = Append(ops, "decrypt")
    /\ UNCHANGED <<codecName, randomSeed, imgData, fileBuffer, origImgData, origFile>>

ContainerNext ==
    \/ MosaicEncryptToBlob
    \/ MosaicInitFromBlob
    \/ MosaicDecryptToUrl

SpecContainer == ContainerInit /\ [][ContainerNext]_vars

(***************************************************************************)
(* Properties of the container step.  The chunk structure of a file is     *)
(* stated here on its own, from the chunk grammar: lengths are encoded and *)
(* compared as bytes, and chunk starts are found backwards.                *)
(***************************************************************************)
Bytes(file, from, n) == SubSeq(file, from + 1, from + n)

HasSignature(file) == Len(file) >= 8 /\ Bytes(file, 0, 8) = PNG_SIGNATURE

\* A chunk header (length, type) lies at o and says the chunk ends at e.
ChunkSpans(file, o, e) ==
    /\ o + 8 <= Len(file)
    /\ e >= o + 12
    /\ Bytes(file, o, 4) = U32Bytes(e - o - 12)

\* o is where the walk from offset 8 starts reading a chunk: 8 itself, or the
\* end of a chunk that starts at such an offset and is not of type IEND.
RECURSIVE ChunkStart(_, _)
ChunkStart(file, o) ==
    IF o = 8
    THEN TRUE
    ELSE \E p \in 8 .. (o - 12) :
            /\ ChunkSpans(file, p, o)
            /\ Bytes(file, p + 4, 4) # IEND
            /\ ChunkStart(file, p)

\* The first IEND chunk of the walk starts at o and ends at e.
FirstIend(file, o, e) ==
    /\ ChunkSpans(file, o, e)
    /\ Bytes(file, o + 4, 4) = IEND
    /\ ChunkStart(file, o)

\* The file is a PNG that ends exactly with the CRC of its first IEND chunk.
WellFormedPng(file) ==
    /\ HasSignature(file)
    /\ \E o \in 8 .. Len(file) : FirstIend(file, o, Len(file))

\* C4: container recovery: decryptToUrl on P ++ F, P a PNG ending with its
\* first IEND chunk's CRC and F a non-empty file, returns exactly the bytes
\* of F, whatever F holds.
C4_ContainerRecovery ==
    (/\ ops = <<"encrypt", "load", "decrypt">>
     /\ origFile # <<>>)
    => /\ \E n \in 0 .. Len(fileBuffer) :
             /\ WellFormedPng(SubSeq(fileBuffer, 1, n))
             /\ SubSeq(fileBuffer, n + 1, Len(fileBuffer)) = origFile
       /\ ret = ObjectUrl(origFile)

\* The original file was itself a PNG signature followed by an IEND chunk,
\* and it came back whole.
C4_Witness ==
    /\ ops = <<"encrypt", "load", "decrypt">>
    /\ origFile = PNG_SIGNATURE \o Chunk(IEND, <<>>, <<174, 66, 96, 130>>)
    /\ ret = ObjectUrl(origFile)

\* C5: malformed input: on any bytes (of any length, none included) whose
\* first 8 bytes are not the PNG signature, decryptToUrl returns the empty
\* result and no exception leaves it.
C5_NotPngIsEmpty ==
    (LastOp = "decrypt" /\ ~ HasSignature(fileBuffer)) => ret = EmptyUrl

\* A file of the first 4 signature bytes only, where the second read is out
\* of range, gave the empty result.
C5_Witness ==
    /\ LastOp = "decrypt"
    /\ fileBuffer = <<137, 80, 78, 71>>
    /\ ret = EmptyUrl

\* C6: truncated container: on bytes that start with the signature and whose
\* chunk walk leaves the file before an IEND chunk has been consumed whole,
\* decryptToUrl returns the empty result, never a payload or an exception.
C6_TruncatedIsEmpty ==
    (/\ LastOp = "decrypt"
     /\ HasSignature(fileBuffer)
     /\ ~ \E o \in 8 .. Len(fileBuffer), e \in 8 .. Len(fileBuffer) :
            FirstIend(fileBuffer, o, e))
    => ret = EmptyUrl

\* A signature followed by a chunk header announcing 2^32 - 1 bytes.
C6_Witness ==
    /\ LastOp = "decrypt"
    /\ fileBuffer = PNG_SIGNATURE \o <<255, 255, 255, 255>> \o IDAT
    /\ ret = EmptyUrl

\* An IEND header whose CRC is missing, after a whole chunk.
C6_WitnessIendCut ==
    /\ LastOp = "decrypt"
    /\ fileBuffer = PNG_SIGNATURE \o Chunk(IDAT, <<7>>, <<1, 2, 3, 4>>)
                    \o <<0, 0, 0, 0>> \o IEND
    /\ ret = EmptyUrl

\* C7: no payload: on a valid PNG with no byte after its IEND chunk's CRC
\* (the walk's offset after IEND equals the length) decryptToUrl returns the
\* empty result, not a zero-length payload.
C7_NoPayloadIsEmpty ==
    (LastOp = "decrypt" /\ WellFormedPng(fileBuffer)) => ret = EmptyUrl

\* A PNG of a signature, one chunk and IEND was given and nothing came back.
C7_Witness ==
    /\ LastOp = "decrypt"
    /\ fileBuffer = PNG_SIGNATURE \o Chunk(IDAT, <<7>>, <<1, 2, 3, 4>>)
                    \o Chunk(IEND, <<>>, <<174, 66, 96, 130>>)
    /\ ret = EmptyUrl

====
